---- MODULE Spec2Model ----
(***************************************************************************)
(* Model of the OneTimeSecret Go client (package ots).                     *)
(*                                                                         *)
(* The repository holds three copies of the package: src/ots/ots.go,       *)
(* src/unnamed/part_002 and the older src/unnamed/part_003.  They differ   *)
(* in Status, in postRequest and in the parameters of Generate; part_003   *)
(* spells the body of postRequest out in each operation and has no Burn    *)
(* and no RetrieveRecentMetadata.  The variable pkg says which copy the    *)
(* client was built from; everything else is the client's fields, the      *)
(* last call and what the transport did with it.                           *)
(*                                                                         *)
(* Go strings are TLA+ strings.  A response body is either a text that is  *)
(* not JSON or the JSON value it parses to.  A pointer is a sequence of    *)
(* length at most one (<<>> is nil).                                       *)
(***************************************************************************)
EXTENDS Integers, Sequences, FiniteSets, TLC

\* ttl arguments range over -1..MaxTTL, ttl values in responses over 0..MaxTTL
MaxTTL == 1
\* recipient lists in responses have 0..MaxRecipients entries
MaxRecipients == 2

Nil == <<>>
Ptr(v) == <<v>>

(***************************************************************************)
(* JSON values and response bodies                                         *)
(***************************************************************************)
Null == [t |-> "null"]
Str(s) == [t |-> "string", s |-> s]
\* an integer literal
Num(n) == [t |-> "number", int |-> TRUE, n |-> n]
\* a literal with a fraction, n + 0.5
Frac(n) == [t |-> "number", int |-> FALSE, n |-> n]
Bool(b) == [t |-> "bool", b |-> b]
Arr(a) == [t |-> "array", a |-> a]
\* members in textual order, each [k |-> key, v |-> value]
Obj(m) == [t |-> "object", m |-> m]
Member(k, v) == [k |-> k, v |-> v]

\* bytes that are not a JSON text
Text(s) == [json |-> FALSE, text |-> s]
\* bytes that are the JSON text of v
Json(v) == [json |-> TRUE, val |-> v]

(***************************************************************************)
(* The decode targets                                                      *)
(***************************************************************************)
Field(name, key, type, omitempty) ==
    [name |-> name, key |-> key, type |-> type, omitempty |-> omitempty]

\* src/ots/ots.go: the tag of Recipient lacks its closing quote, so
\* reflect finds no json tag: the key is the Go name and omitempty is off.
SecretFields_ots ==
    << Field("CustomerID", "custid", "string", TRUE),
       Field("MetadataKey", "metadata_key", "string", TRUE),
       Field("SecretKey", "secret_key", "string", TRUE),
       Field("Value", "value", "string", TRUE),
       Field("TTL", "ttl", "int", TRUE),
       Field("MetadataTTL", "metadata_ttl", "int", TRUE),
       Field("SecretTTL", "secret_ttl", "int", TRUE),
       Field("Recipient", "Recipient", "[]string", FALSE),
       Field("State", "state", "string", TRUE),
       Field("Created", "created", "int", TRUE),
       Field("Updated", "updated", "int", TRUE),
       Field("PassphraseRequired", "passphrase_required", "bool", TRUE) >>

SecretFields_part002 ==
    << Field("CustomerID", "custid", "string", TRUE),
       Field("MetadataKey", "metadata_key", "string", TRUE),
       Field("SecretKey", "secret_key", "string", TRUE),
       Field("Value", "value", "string", TRUE),
       Field("State", "state", "string", TRUE),
       Field("Recipient", "recipient", "[]string", TRUE),
       Field("TTL", "ttl", "int", TRUE),
       Field("MetadataTTL", "metadata_ttl", "int", TRUE),
       Field("SecretTTL", "secret_ttl", "int", TRUE),
       Field("Created", "created", "int", TRUE),
       Field("Updated", "updated", "int", TRUE),
       Field("PassphraseRequired", "passphrase_required", "bool", TRUE) >>

Packages == {"ots/ots.go", "part_002", "part_003"}

\* part_003 declares Secret as src/ots/ots.go does, malformed tag included
Secret(p) == IF p = "part_002" THEN SecretFields_part002 ELSE SecretFields_ots

\* Health has no tags: the key is the Go name
Health == << Field("Status", "Status", "string", FALSE) >>

NilSlice == [nil |-> TRUE, e |-> <<>>]
Slice(e) == [nil |-> FALSE, e |-> e]

Zero_sentinel(type) ==
    CASE type = "string" -> ""
      [] type = "int" -> -1
      [] type = "bool" -> FALSE
      [] type = "[]string" -> NilSlice

\* the zero value of a Go type
Zero(type) ==
    CASE type = "string" -> ""
      [] type = "int" -> 0
      [] type = "bool" -> FALSE
      [] type = "[]string" -> NilSlice

\* the zero value of a struct with these fields
ZeroStruct(fields) ==
    [n \in {fields[i].name : i \in DOMAIN fields} |->
        Zero(fields[CHOOSE i \in DOMAIN fields : fields[i].name = n].type)]

(***************************************************************************)
(* encoding/json, decoding                                                 *)
(***************************************************************************)
\* simple case folding of the keys that occur
Fold(k) ==
    CASE k = "Recipient" -> "recipient"
      [] k = "Status" -> "status"
      [] k = "TTL" -> "ttl"
      [] OTHER -> k

\* an exact match wins, then a case-insensitive one; 0: no such field
findField_exact(fields, k) ==
    IF \E i \in DOMAIN fields : fields[i].key = k
    THEN CHOOSE i \in DOMAIN fields : fields[i].key = k
    ELSE 0

findField(fields, k) ==
    IF \E i \in DOMAIN fields : fields[i].key = k
    THEN CHOOSE i \in DOMAIN fields : fields[i].key = k
    ELSE IF \E i \in DOMAIN fields : Fold(fields[i].key) = Fold(k)
    THEN CHOOSE i \in DOMAIN fields : Fold(fields[i].key) = Fold(k)
    ELSE 0

\* array elements into a []string: a string is stored, null leaves the
\* element "", anything else is a type error and decoding goes on
RECURSIVE arrayOfString(_)
arrayOfString(a) ==
    IF a = <<>> THEN [e |-> <<>>, err |-> FALSE]
    ELSE LET x == Head(a)
             rest == arrayOfString(Tail(a))
         IN  [e |-> << (IF x.t = "string" THEN x.s ELSE "") >> \o rest.e,
              err |-> (x.t \notin {"string", "null"}) \/ rest.err]

\* store JSON value jv into a Go value of this type that holds cur
setValue(type, cur, jv) ==
    CASE jv.t = "null" ->
            [v |-> IF type = "[]string" THEN NilSlice ELSE cur, err |-> FALSE]
      [] type = "string" /\ jv.t = "string" -> [v |-> jv.s, err |-> FALSE]
      [] type = "int" /\ jv.t = "number" /\ jv.int -> [v |-> jv.n, err |-> FALSE]
      [] type = "bool" /\ jv.t = "bool" -> [v |-> jv.b, err |-> FALSE]
      [] type = "[]string" /\ jv.t = "array" ->
            LET r == arrayOfString(jv.a) IN [v |-> Slice(r.e), err |-> r.err]
      [] OTHER -> [v |-> cur, err |-> TRUE]

\* the members of a JSON object into a struct, in textual order; unknown
\* keys are skipped, a type error is remembered and decoding goes on
RECURSIVE object(_, _, _)
object(fields, members, acc) ==
    IF members = <<>> THEN acc
    ELSE LET m == Head(members)
             i == findField(fields, m.k)
         IN  IF i = 0 THEN object(fields, Tail(members), acc)
             ELSE LET f == fields[i]
                      r == setValue(f.type, acc.v[f.name], m.v)
                  IN  object(fields, Tail(members),
                             [v |-> [acc.v EXCEPT ![f.name] = r.v],
                              err |-> acc.err \/ r.err])

\* a JSON value into a struct value
struct(fields, jv) ==
    CASE jv.t = "object" -> object(fields, jv.m, [v |-> ZeroStruct(fields), err |-> FALSE])
      [] jv.t = "null" -> [v |-> ZeroStruct(fields), err |-> FALSE]
      [] OTHER -> [v |-> ZeroStruct(fields), err |-> TRUE]

RECURSIVE arrayOfStruct(_, _)
arrayOfStruct(fields, a) ==
    IF a = <<>> THEN [v |-> <<>>, err |-> FALSE]
    ELSE LET x == struct(fields, Head(a))
             rest == arrayOfStruct(fields, Tail(a))
         IN  [v |-> <<x.v>> \o rest.v, err |-> x.err \/ rest.err]

\* json.Unmarshal(data, &p) for var p *T, T a struct with these fields:
\* the pointer p afterwards and the error
Unmarshal(fields, data) ==
    IF ~data.json THEN [ptr |-> Nil, err |-> "syntax"]
    ELSE IF data.val.t = "null" THEN [ptr |-> Nil, err |-> "nil"]
    ELSE LET r == struct(fields, data.val)
         IN  [ptr |-> Ptr(r.v), err |-> IF r.err THEN "type" ELSE "nil"]

\* json.Unmarshal(data, &p) for var p *Secrets
UnmarshalSecrets(fields, data) ==
    IF ~data.json THEN [ptr |-> Nil, err |-> "syntax"]
    ELSE IF data.val.t = "null" THEN [ptr |-> Nil, err |-> "nil"]
    ELSE IF data.val.t = "array"
    THEN LET r == arrayOfStruct(fields, data.val.a)
         IN  [ptr |-> Ptr(r.v), err |-> IF r.err THEN "type" ELSE "nil"]
    ELSE [ptr |-> Ptr(<<>>), err |-> "type"]

(***************************************************************************)
(* encoding/json, encoding                                                 *)
(***************************************************************************)
\* a Go string holding the byte 0xFF, which is not UTF-8, and what
\* json.Marshal writes for it: the byte replaced by U+FFFD
BadUTF8 == "caf<0xFF>"
ToValidUTF8(s) == IF s = BadUTF8 THEN "caf<U+FFFD>" ELSE s

RECURSIVE stringsToJSON(_)
stringsToJSON(e) ==
    IF e = <<>> THEN <<>> ELSE << Str(ToValidUTF8(Head(e))) >> \o stringsToJSON(Tail(e))

\* the JSON value of a Go value
toJSON_quoted(type, v) ==
    CASE type = "string" -> Str(ToValidUTF8(v))
      [] type = "int" -> Str(ToString(v))
      [] type = "bool" -> Bool(v)
      [] type = "[]string" -> IF v.nil THEN Null ELSE Arr(stringsToJSON(v.e))

toJSON(type, v) ==
    CASE type = "string" -> Str(ToValidUTF8(v))
      [] type = "int" -> Num(v)
      [] type = "bool" -> Bool(v)
      [] type = "[]string" -> IF v.nil THEN Null ELSE Arr(stringsToJSON(v.e))

\* what omitempty leaves out: false, 0, "", a nil or empty slice
isEmptyValue(type, v) ==
    CASE type = "[]string" -> v.e = <<>>
      [] OTHER -> v = Zero(type)

RECURSIVE marshalFrom(_, _, _)
marshalFrom(fields, v, i) ==
    IF i > Len(fields) THEN <<>>
    ELSE LET f == fields[i]
         IN  IF f.omitempty /\ isEmptyValue(f.type, v[f.name])
             THEN marshalFrom(fields, v, i + 1)
             ELSE << Member(f.key, toJSON(f.type, v[f.name])) >> \o marshalFrom(fields, v, i + 1)

\* json.Marshal of a struct with these fields (json.MarshalIndent writes
\* the same value)
Marshal(fields, v) == Json(Obj(marshalFrom(fields, v, 1)))

(***************************************************************************)
(* Strings, URLs and requests                                              *)
(*                                                                         *)
(* A string that is built by formatting is the sequence of its pieces; its *)
(* text is their concatenation.                                            *)
(***************************************************************************)
base == <<"https://onetimesecret.com/api/v1">>

RECURSIVE Join(_)
Join(pieces) == IF pieces = <<>> THEN "" ELSE Head(pieces) \o Join(Tail(pieces))

\* an argument with an ASCII control character in it
CtlKey == "k\n"
hasCTL(pieces) == \E i \in DOMAIN pieces : pieces[i] = CtlKey

createURI_noslash(s) == base \o s

\* fmt.Sprintf("%s/%s", base, s)
createURI(s) == base \o <<"/">> \o s

\* strconv.Itoa
Itoa(n) == ToString(n)

\* url.QueryEscape on the strings that occur
QueryEscape(s) ==
    CASE s = "a@b.com" -> "a%40b.com"
      [] s = "p w" -> "p+w"
      [] s = CtlKey -> "k%0A"
      [] OTHER -> s

\* the keys of a form in the order sort.Strings puts them
SortedKeys == <<"passphrase", "recipient", "secret", "secret_key", "ttl">>

RECURSIVE encodeFrom(_, _)
encodeFrom(v, i) ==
    IF i > Len(SortedKeys) THEN <<>>
    ELSE IF SortedKeys[i] \in DOMAIN v
         THEN << [k |-> QueryEscape(SortedKeys[i]), v |-> QueryEscape(v[SortedKeys[i]])] >>
              \o encodeFrom(v, i + 1)
         ELSE encodeFrom(v, i + 1)

\* url.Values.Encode: the pieces k=v of the text, sorted by key; the text
\* joins them by "&", so the empty text has no piece
Encode(v) == encodeFrom(v, 1)

\* strings.NewReader(s); a nil io.Reader is Nil
NewReader(s) == Ptr(s)

\* http.NewRequest: the URL must parse (no control character); a
\* strings.Reader of length 0 becomes http.NoBody
NewRequest(method, url, body) ==
    IF hasCTL(url) THEN [req |-> Nil, err |-> TRUE]
    ELSE [req |-> Ptr([method |-> method,
                       url |-> Join(url),
                       body |-> IF body # Nil /\ body[1] = <<>> THEN Nil ELSE body,
                       auth |-> Nil]),
          err |-> FALSE]

SetBasicAuth_swapped(req, username, password) ==
    [req EXCEPT !.auth = Ptr([user |-> password, pass |-> username])]

\* req.SetBasicAuth
SetBasicAuth(req, username, password) ==
    [req EXCEPT !.auth = Ptr([user |-> username, pass |-> password])]

\* what a handler did: the stages it ran, the requests it handed to the
\* transport, and what it returned (or that it panicked)
Exec(trace, reqs, res, err) ==
    [trace |-> trace, reqs |-> reqs, res |-> res, err |-> err, panic |-> FALSE]

Panic(trace, reqs) ==
    [trace |-> trace, reqs |-> reqs, res |-> Nil, err |-> "nil", panic |-> TRUE]

(***************************************************************************)
(* The client                                                              *)
(*                                                                         *)
(* c is the client, [Username, Token].  tr is what the transport does in   *)
(* this call: doErr, c.hc.Do fails; otherwise ioutil.ReadAll delivers the  *)
(* bytes got, together with an error when readErr.                         *)
(***************************************************************************)
\* Client.New
New(user, token) == [Username |-> user, Token |-> token]

postRequest_retry(c, routePath, body, tr) ==
    LET endpoint == createURI(routePath)
        nr == NewRequest("POST", endpoint, body)
        req == SetBasicAuth(nr.req[1], c.Username, c.Token)
    IN  IF nr.err THEN Exec(<<"NewRequest">>, <<>>, Nil, "newrequest")
        ELSE IF tr.doErr
        THEN Exec(<<"NewRequest", "SetBasicAuth", "Do", "Do">>, <<req, req>>, Nil, "transport")
        ELSE LET u == Unmarshal(SecretFields_ots, tr.got)
             IN  Exec(<<"NewRequest", "SetBasicAuth", "Do", "ReadAll", "Unmarshal">>, <<req>>,
                      IF u.err # "nil" THEN Nil ELSE u.ptr,
                      IF u.err # "nil" THEN u.err ELSE "nil")

postRequest_nocheck(c, routePath, body, tr) ==
    LET endpoint == createURI(routePath)
        nr == NewRequest("POST", endpoint, body)
        req == SetBasicAuth(nr.req[1], c.Username, c.Token)
    IN  IF nr.err THEN Exec(<<"NewRequest">>, <<>>, Nil, "newrequest")
        ELSE IF tr.readErr /\ ~tr.doErr
        THEN Exec(<<"NewRequest", "SetBasicAuth", "Do", "ReadAll">>, <<req>>, Nil, "read")
        ELSE LET u == Unmarshal(SecretFields_part002, IF tr.doErr THEN Text("") ELSE tr.got)
             IN  Exec(<<"NewRequest", "SetBasicAuth", "Do", "ReadAll", "Unmarshal">>, <<req>>,
                      IF u.err # "nil" THEN Nil ELSE u.ptr,
                      IF u.err # "nil" THEN u.err ELSE "nil")

\* src/unnamed/part_002, Client.postRequest: every failed stage returns
postRequest_part002(c, routePath, body, tr) ==
    LET endpoint == createURI(routePath)
        nr == NewRequest("POST", endpoint, body)
        req == SetBasicAuth(nr.req[1], c.Username, c.Token)
    IN  IF nr.err THEN Exec(<<"NewRequest">>, <<>>, Nil, "newrequest")
        ELSE IF tr.doErr
        THEN Exec(<<"NewRequest", "SetBasicAuth", "Do">>, <<req>>, Nil, "transport")
        ELSE IF tr.readErr
        THEN Exec(<<"NewRequest", "SetBasicAuth", "Do", "ReadAll">>, <<req>>, Nil, "read")
        ELSE LET u == Unmarshal(SecretFields_part002, tr.got)
             IN  Exec(<<"NewRequest", "SetBasicAuth", "Do", "ReadAll", "Unmarshal">>, <<req>>,
                      IF u.err # "nil" THEN Nil ELSE u.ptr,
                      IF u.err # "nil" THEN u.err ELSE "nil")

\* src/ots/ots.go, Client.postRequest: a failed read is logged and the
\* bytes read so far are decoded
postRequest(c, routePath, body, tr) ==
    LET endpoint == createURI(routePath)
        nr == NewRequest("POST", endpoint, body)
        req == SetBasicAuth(nr.req[1], c.Username, c.Token)
    IN  IF nr.err THEN Exec(<<"NewRequest">>, <<>>, Nil, "newrequest")
        ELSE IF tr.doErr
        THEN Exec(<<"NewRequest", "SetBasicAuth", "Do">>, <<req>>, Nil, "transport")
        ELSE LET u == Unmarshal(SecretFields_ots, tr.got)
             IN  Exec(<<"NewRequest", "SetBasicAuth", "Do", "ReadAll", "Unmarshal">>, <<req>>,
                      IF u.err # "nil" THEN Nil ELSE u.ptr,
                      IF u.err # "nil" THEN u.err ELSE "nil")

\* src/unnamed/part_003: the request, send, read and decode steps that
\* Create, Generate, Retrieve and RetrieveMetadata each spell out
request_part003(c, routePath, body, tr) ==
    LET endpoint == createURI(routePath)
        nr == NewRequest("POST", endpoint, body)
        req == SetBasicAuth(nr.req[1], c.Username, c.Token)
    IN  IF nr.err THEN Exec(<<"NewRequest">>, <<>>, Nil, "newrequest")
        ELSE IF tr.doErr
        THEN Exec(<<"NewRequest", "SetBasicAuth", "Do">>, <<req>>, Nil, "transport")
        ELSE IF tr.readErr
        THEN Exec(<<"NewRequest", "SetBasicAuth", "Do", "ReadAll">>, <<req>>, Nil, "read")
        ELSE LET u == Unmarshal(SecretFields_ots, tr.got)
             IN  Exec(<<"NewRequest", "SetBasicAuth", "Do", "ReadAll", "Unmarshal">>, <<req>>,
                      IF u.err # "nil" THEN Nil ELSE u.ptr,
                      IF u.err # "nil" THEN u.err ELSE "nil")

\* the postRequest of the package p
post(p, c, routePath, body, tr) ==
    IF p = "ots/ots.go" THEN postRequest(c, routePath, body, tr)
    ELSE IF p = "part_002" THEN postRequest_part002(c, routePath, body, tr)
    ELSE request_part003(c, routePath, body, tr)

\* src/ots/ots.go, Client.Status: the raw body is compared with "offline"
Status(c, tr) ==
    LET endpoint == createURI(<<"status">>)
        nr == NewRequest("GET", endpoint, NewReader(<<>>))
        req == SetBasicAuth(nr.req[1], c.Username, c.Token)
    IN  IF nr.err THEN Exec(<<"NewRequest">>, <<>>, Nil, "newrequest")
        ELSE IF tr.doErr
        THEN Exec(<<"NewRequest", "SetBasicAuth", "Do">>, <<req>>, Nil, "transport")
        ELSE IF tr.readErr
        THEN Exec(<<"NewRequest", "SetBasicAuth", "Do", "ReadAll", "Close">>, <<req>>, Nil, "read")
        ELSE Exec(<<"NewRequest", "SetBasicAuth", "Do", "ReadAll", "Close">>, <<req>>, Nil,
                  IF tr.got = Text("offline") THEN "offline" ELSE "nil")

\* src/unnamed/part_002, Client.Status: the body is decoded into a *Health
\* and h.Status is read, h nil or not
Status_part002(c, tr) ==
    LET endpoint == createURI(<<"status">>)
        nr == NewRequest("GET", endpoint, Nil)
        req == SetBasicAuth(nr.req[1], c.Username, c.Token)
    IN  IF nr.err THEN Exec(<<"NewRequest">>, <<>>, Nil, "newrequest")
        ELSE IF tr.doErr
        THEN Exec(<<"NewRequest", "SetBasicAuth", "Do">>, <<req>>, Nil, "transport")
        ELSE IF tr.readErr
        THEN Exec(<<"NewRequest", "SetBasicAuth", "Do", "ReadAll", "Close">>, <<req>>, Nil, "read")
        ELSE LET u == Unmarshal(Health, tr.got)
                 ran == <<"NewRequest", "SetBasicAuth", "Do", "ReadAll", "Unmarshal", "Close">>
             IN  IF u.err # "nil" THEN Exec(ran, <<req>>, Nil, u.err)
                 ELSE IF u.ptr = Nil THEN Panic(ran, <<req>>)
                 ELSE Exec(ran, <<req>>, Nil,
                           IF u.ptr[1].Status = "offline" THEN "offline" ELSE "nil")

Create_dropsEmpty(p, c, secret, passphrase, recipient, ttl, tr) ==
    LET route == <<"share">>
        all == [secret |-> secret, passphrase |-> passphrase,
                ttl |-> Itoa(IF ttl < 0 THEN 0 ELSE ttl), recipient |-> recipient]
        v == [k \in {x \in DOMAIN all : all[x] # ""} |-> all[k]]
    IN  post(p, c, route, NewReader(Encode(v)), tr)

\* Client.Create
Create(p, c, secret, passphrase, recipient, ttl, tr) ==
    LET route == <<"share">>
        v == [secret |-> secret, passphrase |-> passphrase,
              ttl |-> Itoa(ttl), recipient |-> recipient]
    IN  post(p, c, route, NewReader(Encode(v)), tr)

\* Client.Generate(recipient, passphrase string, ttl int)
Generate(p, c, recipient, passphrase, ttl, tr) ==
    LET route == <<"generate">>
        v == [passphrase |-> passphrase, ttl |-> Itoa(ttl), recipient |-> recipient]
    IN  post(p, c, route, NewReader(Encode(v)), tr)

\* src/unnamed/part_003, Client.Generate(passphrase, recipient string, ttl int)
Generate_part003(c, passphrase, recipient, ttl, tr) ==
    LET route == <<"generate">>
        v == [passphrase |-> passphrase, ttl |-> Itoa(ttl), recipient |-> recipient]
    IN  request_part003(c, route, NewReader(Encode(v)), tr)

\* Client.Retrieve
Retrieve(p, c, secretKey, passphrase, tr) ==
    LET route == <<"secret/", secretKey>>
        v == [secret_key |-> secretKey, passphrase |-> passphrase]
    IN  post(p, c, route, NewReader(Encode(v)), tr)

\* Client.RetrieveMetadata
RetrieveMetadata(p, c, metadataKey, tr) ==
    LET route == <<"private/", metadataKey>>
    IN  post(p, c, route, Nil, tr)

\* Client.Burn
Burn(p, c, metadataKey, tr) ==
    LET route == <<"private/", metadataKey, "/burn">>
    IN  post(p, c, route, Nil, tr)

\* Client.RetrieveRecentMetadata, the same in both builds but for the
\* fields of Secret
RetrieveRecentMetadata(p, c, tr) ==
    LET endpoint == createURI(<<"private/recent">>)
        nr == NewRequest("GET", endpoint, Nil)
        req == SetBasicAuth(nr.req[1], c.Username, c.Token)
    IN  IF nr.err THEN Exec(<<"NewRequest">>, <<>>, Nil, "newrequest")
        ELSE IF tr.doErr
        THEN Exec(<<"NewRequest", "SetBasicAuth", "Do">>, <<req>>, Nil, "transport")
        ELSE IF tr.readErr
        THEN Exec(<<"NewRequest", "SetBasicAuth", "Do", "ReadAll">>, <<req>>, Nil, "read")
        ELSE LET u == UnmarshalSecrets(Secret(p), tr.got)
             IN  Exec(<<"NewRequest", "SetBasicAuth", "Do", "ReadAll", "Unmarshal">>, <<req>>,
                      IF u.err # "nil" THEN Nil ELSE u.ptr,
                      IF u.err # "nil" THEN u.err ELSE "nil")

(***************************************************************************)
(* Inputs                                                                  *)
(***************************************************************************)
Credentials == { <<"me@example.com", "tok3n">>, <<"you@example.com", "">> }
SecretValues == {"s3cr3t"}
Passphrases == {"", "p w"}
Recipients == {"a@b.com"}
TTLs == -1 .. MaxTTL
Keys == {"abc123", CtlKey}

Obscured(i) == ToString(i) \o "@b.com (obscured)"
RecipientList(n) == Arr([i \in 1 .. n |-> Str(Obscured(i))])

CreateBody ==
    Json(Obj(<< Member("secret_key", Str("abc123")), Member("ttl", Num(60)),
                Member("recipient", Arr(<< Str("a@b.com (obscured)") >>)) >>))
GenerateBody ==
    Json(Obj(<< Member("value", Str("g3n3rated")), Member("secret_key", Str("abc123")),
                Member("metadata_key", Str("m1")), Member("ttl", Num(60)) >>))
\* keys in another case, an unknown key, a repeated key and a null
MixedBody ==
    Json(Obj(<< Member("Recipient", Arr(<< Str("x"), Str("y") >>)),
                Member("passphrase_required", Bool(TRUE)), Member("created", Num(1)),
                Member("shrimp", Num(7)), Member("state", Null),
                Member("TTL", Num(5)), Member("ttl", Num(3)) >>))
StatusBody(s) == Json(Obj(<< Member("status", Str(s)) >>))

NotJSON == { Text(""), Text("offline"), Text("<html>") }

Bodies ==
    NotJSON
    \cup { Json(Null), Json(Str("offline")), Json(Obj(<<>>)) }
    \cup { StatusBody(s) : s \in {"offline", "nominal", "degraded"} }
    \cup { CreateBody, GenerateBody, MixedBody }
    \cup { Json(Obj(<< Member("ttl", Num(n)) >>)) : n \in 0 .. MaxTTL }
    \cup { Json(Obj(<< Member("recipient", RecipientList(n)) >>)) : n \in 0 .. MaxRecipients }
    \cup { Json(Obj(<< Member("value", Str("")) >>)),
           Json(Obj(<< Member("ttl", Str("60")) >>)),
           Json(Obj(<< Member("ttl", Frac(1)) >>)) }
    \cup { Json(Arr(<<>>)),
           Json(Arr(<< Obj(<< Member("metadata_key", Str("m1")) >>),
                       Obj(<< Member("metadata_key", Str("m2")), Member("ttl", Num(60)) >>) >>)) }

\* the bytes ioutil.ReadAll has when the read fails: none, or a part, or
\* all of the body
PartialReads == { Text(""), Text("offline"), CreateBody, StatusBody("offline") }

\* what the transport can do in one call
Transports ==
    { [doErr |-> TRUE, readErr |-> FALSE, got |-> Text("")] }
    \cup { [doErr |-> FALSE, readErr |-> FALSE, got |-> b] : b \in Bodies }
    \cup { [doErr |-> FALSE, readErr |-> TRUE, got |-> b] : b \in PartialReads }

(***************************************************************************)
(* State                                                                   *)
(***************************************************************************)
VARIABLES
    pkg,        \* the build of package ots: "ots/ots.go" or "part_002"
    client,     \* the client New returned: [Username, Token]
    call,       \* the last call: the operation and its arguments
    transport,  \* what the transport did in the last call
    exec,       \* what the last call did and returned
    printed     \* the Secret last encoded and the JSON written for it

vars == <<pkg, client, call, transport, exec, printed>>

NoCall == [op |-> "none", args |-> <<>>]

Init ==
    /\ pkg \in Packages
    /\ \E cr \in Credentials : client = New(cr[1], cr[2])
    /\ call = NoCall
    /\ transport = [doErr |-> FALSE, readErr |-> FALSE, got |-> Text("")]
    /\ exec = Exec(<<>>, <<>>, Nil, "nil")
    /\ printed = Nil

CallStatus ==
    \E tr \in Transports :
        /\ call' = [op |-> "Status", args |-> <<>>]
        /\ transport' = tr
        /\ exec' = IF pkg = "part_002" THEN Status_part002(client, tr)
                   ELSE Status(client, tr)
        /\ UNCHANGED <<pkg, client, printed>>

CallCreate ==
    \E secret \in SecretValues, passphrase \in Passphrases, recipient \in Recipients,
       ttl \in TTLs, tr \in Transports :
        /\ call' = [op |-> "Create", args |-> <<secret, passphrase, recipient, ttl>>]
        /\ transport' = tr
        /\ exec' = Create(pkg, client, secret, passphrase, recipient, ttl, tr)
        /\ UNCHANGED <<pkg, client, printed>>

\* a and b are Generate's first and second argument
CallGenerate ==
    \E a \in Recipients, b \in Passphrases, ttl \in TTLs, tr \in Transports :
        /\ call' = [op |-> "Generate", args |-> <<a, b, ttl>>]
        /\ transport' = tr
        /\ exec' = IF pkg = "part_003" THEN Generate_part003(client, a, b, ttl, tr)
                   ELSE Generate(pkg, client, a, b, ttl, tr)
        /\ UNCHANGED <<pkg, client, printed>>

CallRetrieve ==
    \E secretKey \in Keys, passphrase \in Passphrases, tr \in Transports :
        /\ call' = [op |-> "Retrieve", args |-> <<secretKey, passphrase>>]
        /\ transport' = tr
        /\ exec' = Retrieve(pkg, client, secretKey, passphrase, tr)
        /\ UNCHANGED <<pkg, client, printed>>

CallRetrieveMetadata ==
    \E metadataKey \in Keys, tr \in Transports :
        /\ call' = [op |-> "RetrieveMetadata", args |-> <<metadataKey>>]
        /\ transport' = tr
        /\ exec' = RetrieveMetadata(pkg, client, metadataKey, tr)
        /\ UNCHANGED <<pkg, client, printed>>

CallBurn ==
    \E metadataKey \in Keys, tr \in Transports :
        /\ pkg # "part_003"
        /\ call' = [op |-> "Burn", args |-> <<metadataKey>>]
        /\ transport' = tr
        /\ exec' = Burn(pkg, client, metadataKey, tr)
        /\ UNCHANGED <<pkg, client, printed>>

CallRetrieveRecentMetadata ==
    \E tr \in Transports :
        /\ pkg # "part_003"
        /\ call' = [op |-> "RetrieveRecentMetadata", args |-> <<>>]
        /\ transport' = tr
        /\ exec' = RetrieveRecentMetadata(pkg, client, tr)
        /\ UNCHANGED <<pkg, client, printed>>

Next ==
    \/ CallStatus
    \/ CallCreate
    \/ CallGenerate
    \/ CallRetrieve
    \/ CallRetrieveMetadata
    \/ CallBurn
    \/ CallRetrieveRecentMetadata

Spec == Init /\ [][Next]_vars

(***************************************************************************)
(* Encoding a Secret                                                       *)
(***************************************************************************)
GoStrings == {"", "g3n3rated", BadUTF8}
RecipientSlices ==
    {NilSlice} \cup { Slice([i \in 1 .. n |-> Obscured(i)]) : n \in 0 .. MaxRecipients }

\* the Secret values a caller may hold
SecretValuesOf(p) ==
    { [ZeroStruct(Secret(p)) EXCEPT !.Value = v, !.TTL = t, !.Recipient = r,
                                    !.PassphraseRequired = b, !.SecretKey = k] :
        v \in GoStrings, t \in -1 .. MaxTTL, r \in RecipientSlices, b \in BOOLEAN,
        k \in {"", "abc123"} }

\* src/unnamed/part_002, Secret.PrettyPrint: json.MarshalIndent and log
PrettyPrint ==
    /\ pkg = "part_002"
    /\ \E s \in SecretValuesOf(pkg) :
          printed' = Ptr([secret |-> s, d |-> Marshal(Secret(pkg), s)])
    /\ UNCHANGED <<pkg, client, call, transport, exec>>

\* a caller of a build that has no PrettyPrint encodes a Secret with
\* json.Marshal
MarshalSecret ==
    /\ pkg # "part_002"
    /\ \E s \in SecretValuesOf(pkg) :
          printed' = Ptr([secret |-> s, d |-> Marshal(Secret(pkg), s)])
    /\ UNCHANGED <<pkg, client, call, transport, exec>>

NextEncode == PrettyPrint \/ MarshalSecret

SpecEncode == Init /\ [][NextEncode]_vars

(***************************************************************************)
(* Properties                                                              *)
(***************************************************************************)
Called == call.op # "none"
Ran(stage) == \E i \in DOMAIN exec.trace : exec.trace[i] = stage
Times(stage) == Cardinality({i \in DOMAIN exec.trace : exec.trace[i] = stage})
Succeeded == exec.err = "nil" /\ ~exec.panic
\* the transport answered and the whole body was read
Delivered == Ran("Do") /\ ~transport.doErr /\ ~transport.readErr

SecretOps == {"Create", "Generate", "Retrieve", "RetrieveMetadata", "Burn"}
RecordOps == SecretOps \cup {"RetrieveRecentMetadata"}

\* C1: Status returns an error if and only if the classification decoded
\* from the response body is exactly "offline".
C1_StatusErrorIffOffline ==
    LET h == Unmarshal(Health, transport.got)
    IN  (call.op = "Status" /\ Delivered /\ h.err = "nil" /\ h.ptr # Nil)
            => ((~Succeeded) <=> (h.ptr[1].Status = "offline"))

\* C2: a response body that is not JSON makes every public operation
\* return a decode error and a nil result, never success.
C2_MalformedBodyIsDecodeError ==
    (Called /\ Delivered /\ ~transport.got.json)
        => (exec.err = "syntax" /\ exec.res = Nil /\ ~exec.panic)

\* C3: when reading the response body fails, the operation returns the
\* read error with a nil result and does not decode the bytes read so far.
C3_ReadErrorReturned ==
    (Called /\ Ran("Do") /\ ~transport.doErr /\ transport.readErr)
        => (exec.err = "read" /\ exec.res = Nil /\ ~Ran("Unmarshal"))

\* C4: when the transport fails, the operation returns the transport's
\* error with a nil result and neither reads a body nor decodes.
C4_TransportErrorBeforeDecode ==
    (Called /\ Ran("Do") /\ transport.doErr)
        => (exec.err = "transport" /\ exec.res = Nil /\ ~exec.panic
            /\ ~Ran("ReadAll") /\ ~Ran("Unmarshal"))

C4_Witness ==
    call.op \in {"Burn", "Status", "RetrieveRecentMetadata"}
    /\ Ran("Do") /\ transport.doErr /\ exec.err = "transport"

\* the keys of a form body, and that none is repeated
FormKeys(body) == IF body = Nil THEN {} ELSE { body[1][i].k : i \in DOMAIN body[1] }
IsForm(body, keys) ==
    body # Nil /\ FormKeys(body) = keys /\ Len(body[1]) = Cardinality(keys)

\* C5: each operation issues its request with the method, the route joined
\* to the base address by one '/', and the body shape of the interface table.
C5_RequestShape ==
    \A i \in DOMAIN exec.reqs :
        LET r == exec.reqs[i]
            api == "https://onetimesecret.com/api/v1"
        IN  CASE call.op = "Status" ->
                    r.method = "GET" /\ r.url = api \o "/status" /\ r.body = Nil
              [] call.op = "Create" ->
                    r.method = "POST" /\ r.url = api \o "/share"
                    /\ IsForm(r.body, {"secret", "passphrase", "ttl", "recipient"})
              [] call.op = "Generate" ->
                    r.method = "POST" /\ r.url = api \o "/generate"
                    /\ IsForm(r.body, {"passphrase", "ttl", "recipient"})
              [] call.op = "Retrieve" ->
                    r.method = "POST" /\ r.url = api \o "/secret/" \o call.args[1]
                    /\ IsForm(r.body, {"secret_key", "passphrase"})
              [] call.op = "RetrieveMetadata" ->
                    r.method = "POST" /\ r.url = api \o "/private/" \o call.args[1]
                    /\ r.body = Nil
              [] call.op = "Burn" ->
                    r.method = "POST"
                    /\ r.url = api \o "/private/" \o call.args[1] \o "/burn"
                    /\ r.body = Nil
              [] call.op = "RetrieveRecentMetadata" ->
                    r.method = "GET" /\ r.url = api \o "/private/recent" /\ r.body = Nil
              [] OTHER -> FALSE

C5_Witness ==
    call.op = "Retrieve" /\ Len(exec.reqs) = 1 /\ call.args[1] = "abc123"

\* C6: every request sent carries basic authentication with the user and
\* token the client was built with, and no operation changes the client's
\* Username or Token.
C6_AuthOnEveryRequest ==
    /\ [](\A i \in DOMAIN exec.reqs :
            exec.reqs[i].auth = Ptr([user |-> client.Username, pass |-> client.Token]))
    /\ [][client' = client]_vars

C6_Witness ==
    call.op = "Status" /\ Len(exec.reqs) = 1 /\ client.Token = "tok3n"

\* C7: a call sends at most one request through the transport, and exactly
\* one when the request could be constructed, whatever the outcome.
C7_OneRequestPerCall ==
    Called => /\ Len(exec.reqs) <= 1
              /\ Times("Do") = Len(exec.reqs)
              /\ (exec.err # "newrequest" => Len(exec.reqs) = 1)

C7_Witness ==
    call.op = "Create" /\ exec.err = "transport" /\ Len(exec.reqs) = 1

AbsentBody == Json(Obj(<<>>))
ZeroTTLBody == Json(Obj(<< Member("ttl", Num(0)) >>))
EmptyValueBody == Json(Obj(<< Member("value", Str("")) >>))
EmptyRecipientBody == Json(Obj(<< Member("recipient", Arr(<<>>)) >>))

\* a Secret operation returned the record decoded from the whole body
ReturnedSecret == call.op \in SecretOps /\ Delivered /\ Succeeded /\ exec.res # Nil

GoValue(jv) ==
    CASE jv.t = "string" -> jv.s
      [] jv.t = "number" -> jv.n
      [] jv.t = "bool" -> jv.b
      [] jv.t = "array" -> Slice([i \in DOMAIN jv.a |-> jv.a[i].s])

\* every field the object gives once holds the value given, and every
\* field the object does not give is empty
FieldsAsSent(fields, members, rec) ==
    \A j \in DOMAIN fields :
        LET f == fields[j]
            at == { i \in DOMAIN members : Fold(members[i].k) = Fold(f.key) }
        IN  /\ at = {} => rec[f.name] = Zero(f.type)
            /\ \A i \in at :
                  (Cardinality(at) = 1 /\ members[i].v.t # "null")
                      => rec[f.name] = GoValue(members[i].v)

\* C9: each field present in the JSON object of the response appears with
\* the same value in the returned record, the recipient list in order, and
\* a field the response omits is left empty; Create against the body of
\* the scenario yields SecretKey "abc123", TTL 60, one recipient and an
\* empty Value, and Generate yields the Value the body carries.
C9_FieldsAsSent ==
    /\ (ReturnedSecret /\ transport.got.json /\ transport.got.val.t = "object")
          => FieldsAsSent(Secret(pkg), transport.got.val.m, exec.res[1])
    /\ (call.op = "RetrieveRecentMetadata" /\ Delivered /\ Succeeded /\ exec.res # Nil)
          => /\ Len(exec.res[1]) = Len(transport.got.val.a)
             /\ \A i \in DOMAIN exec.res[1] :
                   transport.got.val.a[i].t = "object"
                      => FieldsAsSent(Secret(pkg), transport.got.val.a[i].m, exec.res[1][i])
    /\ (ReturnedSecret /\ call.op = "Create" /\ transport.got = CreateBody)
          => /\ exec.res[1].SecretKey = "abc123"
             /\ exec.res[1].TTL = 60
             /\ exec.res[1].Recipient = Slice(<<"a@b.com (obscured)">>)
             /\ exec.res[1].Value = ""
    /\ (ReturnedSecret /\ call.op = "Generate" /\ transport.got = GenerateBody)
          => exec.res[1].Value = "g3n3rated"

C9_Witness ==
    ReturnedSecret /\ call.op = "Create" /\ transport.got = CreateBody

\* the record that decoding the printed JSON gives
Decoded == Unmarshal(Secret(pkg), printed[1].d)

\* the fields of the decoded record equal those of the original
SameFields(a, b) ==
    /\ \A n \in DOMAIN a \ {"Recipient"} : a[n] = b[n]
    /\ a.Recipient.e = b.Recipient.e

ValidUTF8(v) ==
    /\ \A n \in {"CustomerID", "MetadataKey", "SecretKey", "Value", "State"} :
          ToValidUTF8(v[n]) = v[n]
    /\ \A i \in DOMAIN v.Recipient.e : ToValidUTF8(v.Recipient.e[i]) = v.Recipient.e[i]

\* C10: encoding any Secret to JSON and decoding the result back
\* reproduces every field of the original exactly, the recipient list with
\* the same elements in the same order.
C10_RoundTrip ==
    printed # Nil
        => /\ Decoded.err = "nil" /\ Decoded.ptr # Nil
           /\ SameFields(Decoded.ptr[1], printed[1].secret)

\* C10 as amended: encoding a Secret whose strings are valid UTF-8 and
\* decoding the result back reproduces every field exactly; a byte that is
\* not UTF-8 comes back as U+FFFD.
C10_RoundTripValidUTF8 ==
    (printed # Nil /\ ValidUTF8(printed[1].secret))
        => /\ Decoded.err = "nil" /\ Decoded.ptr # Nil
           /\ SameFields(Decoded.ptr[1], printed[1].secret)

C10_Witness ==
    /\ printed # Nil /\ ValidUTF8(printed[1].secret)
    /\ printed[1].secret.Value = "g3n3rated" /\ printed[1].secret.TTL = -1
    /\ Len(printed[1].secret.Recipient.e) = 2 /\ printed[1].secret.PassphraseRequired

\* url.QueryUnescape, as the receiver of a form applies it to the strings
\* that occur: "+" is a space and %XX the byte XX
QueryUnescape(s) ==
    CASE s = "a%40b.com" -> "a@b.com"
      [] s = "p+w" -> "p w"
      [] s = "k%0A" -> CtlKey
      [] OTHER -> s

\* the values a form body holds for key k after form-decoding
FormValues(body, k) ==
    IF body = Nil THEN {}
    ELSE { QueryUnescape(body[1][i].v) :
             i \in { j \in DOMAIN body[1] : QueryUnescape(body[1][j].k) = k } }

\* the decimal text of an integer
Decimal(n) == IF n < 0 THEN "-" \o ToString(0 - n) ELSE ToString(n)

\* C11: Create sends a form with exactly the keys secret, passphrase, ttl
\* and recipient, each holding its argument unchanged after form-decoding:
\* the ttl as decimal text also when zero or negative, an empty passphrase
\* as the key with an empty value.
C11_CreateForm ==
    (call.op = "Create" /\ Ran("Do"))
        => \A i \in DOMAIN exec.reqs :
              LET b == exec.reqs[i].body
              IN  /\ IsForm(b, {"secret", "passphrase", "ttl", "recipient"})
                  /\ FormValues(b, "secret") = {call.args[1]}
                  /\ FormValues(b, "passphrase") = {call.args[2]}
                  /\ FormValues(b, "recipient") = {call.args[3]}
                  /\ FormValues(b, "ttl") = {Decimal(call.args[4])}

C11_Witness ==
    /\ call.op = "Create" /\ Len(exec.reqs) = 1
    /\ call.args[2] = "" /\ call.args[4] = -1

\* C12: Generate takes its inputs in the order passphrase, recipient, TTL
\* and sends a form with exactly the keys passphrase, ttl and recipient:
\* Generate(a, b, t) sends passphrase=a and recipient=b.
C12_GenerateArgumentOrder ==
    (call.op = "Generate" /\ Ran("Do"))
        => \A i \in DOMAIN exec.reqs :
              LET b == exec.reqs[i].body
              IN  /\ IsForm(b, {"passphrase", "ttl", "recipient"})
                  /\ FormValues(b, "passphrase") = {call.args[1]}
                  /\ FormValues(b, "recipient") = {call.args[2]}

\* C13: every record-returning operation returns exactly one of a non-nil
\* result and a non-nil error, for every response body; no body makes it
\* return a nil result together with a nil error.
C13_ResultOrError ==
    (call.op \in RecordOps /\ ~exec.panic)
        => ((exec.res # Nil) <=> (exec.err = "nil"))

\* C14: for every response body the transport delivers, Status finishes by
\* returning nil or an error and never aborts; the body null does not lead
\* to a read of the status field through a nil pointer.
C14_StatusNeverAborts ==
    (call.op = "Status" /\ Delivered) => ~exec.panic

\* C15: every operation that obtains a response from the transport closes
\* the response's body before it returns, on the success path and on every
\* error path.
C15_BodyClosed ==
    (Called /\ Ran("Do") /\ ~transport.doErr) => Ran("Close")

====
